---- MODULE Spec2Model ----
(***************************************************************************)
(* Model of the Gilts-in-Issue spreadsheet reformatter, format_gilts_csv   *)
(* of src/format_gilts_csv.py: the header-row locator, the section-header  *)
(* pass and the CSV writer, run against a small file system.               *)
(*                                                                         *)
(* A Python string is a sequence of atoms: a word, a punctuation mark or   *)
(* the whitespace atom " ".  A cell of the sheet is what xlrd's            *)
(* cell_value returns: a text or a float.                                  *)
(***************************************************************************)
EXTENDS Integers, Sequences, FiniteSets, TLC

VARIABLES
    sheet,            \* first sheet of the workbook: sequence of rows of raw cells
    excel,            \* what is at the path excel_file: a workbook, nothing, or a corrupt file
    fileName,         \* basename of excel_file
    output_dir,       \* the output_dir argument of the call (NoArg for None)
    argv_dir,         \* output directory given on the command line (NoArg for none)
    blocked,          \* directories that os.makedirs cannot create
    disk,             \* "ok", "readonly" (open for write fails) or "full" (a write fails)
    scripts,          \* "one": format_gilts_csv.py only; "both": the pipeline script too
    impl,             \* the script whose format_gilts_csv is running
    dirs,             \* directories that exist
    now,              \* datetime.now(), as <<YYYY, MM, DD>>
    files,            \* output directory: csv path -> [exists, lines]
    pc,               \* position inside format_gilts_csv
    runs,             \* calls of format_gilts_csv completed
    csv_path,         \* local csv_path
    header_row_idx,   \* local header_row_idx (None before it is found)
    section_headers,  \* local section_headers
    handleOpen,       \* the csvfile handle is open
    emitted,          \* source row index of every writerow of this call
    result,           \* value returned by the call
    filesAtCall,      \* files as they were when the call started
    opened,           \* this call reached xlrd.open_workbook and it succeeded
    created,          \* this call executed open(csv_path, 'w')
    opens,            \* number of file handles this call has opened on csv_path
    printed,          \* what __main__ printed after the last call
    prev,             \* outcome of the previous call: [result, path, file, opened]
    before,           \* the file at the first destination before the first call
    dl_pc,            \* where main() and download_gilts_data of the pipeline stand
    net,              \* what the browser, the site and the disk do to the download
    browser,          \* the browser: "none", "open", "closed", "stopped"
    clicked,          \* the Excel button has been clicked
    handler,          \* handle_download: "none", "started", "done", "failed"
    download_path,    \* nonlocal download_path
    download_wait_time, \* local download_wait_time
    seen,             \* download_path as the test after the wait loop read it
    excel_file,       \* what download_gilts_data gave main()
    saved,            \* the file at output_file: "absent", "old", "new"
    rq_pc,            \* where the requests-based download_gilts_data stands
    rq_net,           \* what the site answers to its three requests
    file_date,        \* local file_date of that function, or Unbound
    output_file,      \* what that function returned or raised
    rq_saved,         \* the file at its output_file: "absent", "old", "new"
    pg_pc,            \* where main() of process_gilts_data.py stands
    pg_in,            \* its arguments and answers, and what the disk does
    organized_path,   \* local organized_path of that main()
    df,               \* local df of that main(): "None" or "frame"
    pg_csv_path,      \* local csv_path of that main(), <<>> when nothing is saved
    pg_files          \* what each path holds: "absent", "spreadsheet" or "csv"

\* what the program never changes
world ==
    <<sheet, excel, fileName, output_dir, argv_dir, blocked, disk, scripts, before>>

\* the state of the Playwright download and of main() around it
download ==
    <<dl_pc, net, browser, clicked, handler, download_path, download_wait_time,
      seen, excel_file, saved>>

\* the state of the two scripts of src/archive
archive ==
    <<rq_pc, rq_net, file_date, output_file, rq_saved, pg_pc, pg_in,
      organized_path, df, pg_csv_path, pg_files>>

vars == <<world, impl, dirs, now, files, pc, runs, csv_path, header_row_idx,
          section_headers, handleOpen, emitted, result, filesAtCall, opened,
          created, opens, printed, prev, download, archive>>

(***************************************************************************)
(* Bounds of the model.                                                    *)
(***************************************************************************)
MaxHeaderRow == 16
NCols == 2
MaxTail == 4
MaxRuns == 2

(***************************************************************************)
(* Program constants.                                                      *)
(***************************************************************************)
HeaderScanRows == 15
TotalsRowIndex == 5
None == -1

Min(a, b) == IF a < b THEN a ELSE b

(***************************************************************************)
(* Strings and cells.                                                      *)
(***************************************************************************)
WS == " "

Text(s) == [t |-> "text", s |-> s, n |-> 0]
Number(k) == [t |-> "number", s |-> <<>>, n |-> k]

\* str(v) of a cell value: a text is itself, the float k.0 prints as "k.0"
Str(c) == IF c.t = "text" THEN c.s ELSE <<ToString(c.n), ".", "0">>

\* bool(v) of a cell value: '' and 0.0 are falsy
Truthy(c) == IF c.t = "text" THEN c.s # <<>> ELSE c.n # 0

RECURSIVE LStrip(_)
LStrip(s) == IF s # <<>> /\ Head(s) = WS THEN LStrip(Tail(s)) ELSE s

RECURSIVE RStrip(_)
RStrip(s) ==
    IF s # <<>> /\ s[Len(s)] = WS THEN RStrip(SubSeq(s, 1, Len(s) - 1)) ELSE s

\* str.strip()
Strip(s) == RStrip(LStrip(s))

\* sub in s, for strings
Contains(s, sub) ==
    \E k \in 0..(Len(s) - Len(sub)) : SubSeq(s, k + 1, k + Len(sub)) = sub

\* x in list
InList(x, list) == \E k \in 1..Len(list) : list[k] = x

ISIN_CODE == <<"ISIN", WS, "Code">>
REDEMPTION_DATE == <<"Redemption", WS, "Date">>
INDEX_LINKED == <<"Index-linked">>
GroupLabels == << <<"Ultra-Short">>, <<"Short">>, <<"Medium">>, <<"Long">> >>

(***************************************************************************)
(* The sheet, as xlrd presents it.                                         *)
(***************************************************************************)
nrows == Len(sheet)
ncols == IF Len(sheet) = 0 THEN 0 ELSE Len(sheet[1])

\* sheet.cell_value(i, j), 0-based; defined only inside the sheet
cell_value(i, j) == sheet[i + 1][j + 1]

\* RowValues without the strip
RowValues_Raw(i) == [j \in 1..ncols |-> Str(cell_value(i, j - 1))]

\* [str(sheet.cell_value(i, j)).strip() for j in range(sheet.ncols)]
RowValues(i) == [j \in 1..ncols |-> Strip(Str(cell_value(i, j - 1)))]

(***************************************************************************)
(* Header locator.                                                         *)
(***************************************************************************)
\* IsHeaderRow with the tokens looked for inside the cells
IsHeaderRow_Substring(row_values) ==
    /\ \E k \in 1..Len(row_values) : Contains(row_values[k], ISIN_CODE)
    /\ \E k \in 1..Len(row_values) : Contains(row_values[k], REDEMPTION_DATE)

\* 'ISIN Code' in row_values and 'Redemption Date' in row_values
IsHeaderRow(row_values) ==
    InList(ISIN_CODE, row_values) /\ InList(REDEMPTION_DATE, row_values)

\* ScanLimit with no window: range(sheet.nrows)
ScanLimit_All(n) == n

\* range(min(15, sheet.nrows))
ScanLimit(n) == Min(HeaderScanRows, n)

\* FindHeader with the break left out: the last matching row wins
FindHeader_Last(i) ==
    LET S == {k \in i..(ScanLimit(nrows) - 1) : IsHeaderRow(RowValues(k))} IN
    IF S = {} THEN None ELSE CHOOSE k \in S : \A m \in S : m <= k

\* the for loop with its break; None when the loop runs out
RECURSIVE FindHeader(_)
FindHeader(i) ==
    IF i >= ScanLimit(nrows) THEN None
    ELSE IF IsHeaderRow(RowValues(i)) THEN i
    ELSE FindHeader(i + 1)

(***************************************************************************)
(* Section-header pass.                                                    *)
(***************************************************************************)
\* IsSectionHeader with the continue on a group label left out
IsSectionHeader_NoLabelSkip(i, h) ==
    LET label == Strip(Str(cell_value(i, 0))) IN
    \/ (label # <<>> /\ ~Truthy(cell_value(i, 1)) /\ i > h + 1)
    \/ (Contains(label, INDEX_LINKED) /\ i > h + 1)

\* IsSectionHeader with the row right below the header taken too
IsSectionHeader_Adjacent(i, h) ==
    LET label == Strip(Str(cell_value(i, 0))) IN
    /\ ~InList(label, GroupLabels)
    /\ \/ (label # <<>> /\ ~Truthy(cell_value(i, 1)))
       \/ Contains(label, INDEX_LINKED)

\* the body of the loop: the continue on a group label, then the append test
IsSectionHeader(i, h) ==
    LET label == Strip(Str(cell_value(i, 0))) IN
    /\ ~InList(label, GroupLabels)
    /\ \/ (label # <<>> /\ ~Truthy(cell_value(i, 1)) /\ i > h + 1)
       \/ (Contains(label, INDEX_LINKED) /\ i > h + 1)

\* for i in range(header_row_idx + 1, sheet.nrows)
RECURSIVE SectionScan(_, _)
SectionScan(i, h) ==
    IF i >= nrows THEN <<>>
    ELSE (IF IsSectionHeader(i, h) THEN <<i>> ELSE <<>>) \o SectionScan(i + 1, h)

(***************************************************************************)
(* CSV writer.                                                             *)
(***************************************************************************)
\* SkipRow with the group-label test left out
SkipRow_BlankOnly(row_values) ==
    ~(\E j \in 1..Len(row_values) : row_values[j] # <<>>)

\* SkipRow with the empty-row test left out
SkipRow_LabelsOnly(row_values) == InList(row_values[1], GroupLabels)

\* the two continue tests of the data loop
SkipRow(row_values) ==
    \/ ~(\E j \in 1..Len(row_values) : row_values[j] # <<>>)
    \/ InList(row_values[1], GroupLabels)

\* DataScan starting one row early: range(header_row_idx, sheet.nrows)
DataScan_FromHeader(i) ==
    SelectSeq([k \in 1..(nrows - i + 1) |-> i + k - 2],
              LAMBDA r : ~SkipRow(RowValues(r)))

\* DataScan that leaves out the rows recorded as section headers
DataScan_SkipListed(i) ==
    SelectSeq([k \in 1..(nrows - i) |-> i + k - 1],
              LAMBDA r : ~SkipRow(RowValues(r)) /\ ~InList(r, section_headers))

\* indices of the rows the data loop writes, in the order it writes them
RECURSIVE DataScan(_)
DataScan(i) ==
    IF i >= nrows THEN <<>>
    ELSE (IF SkipRow(RowValues(i)) THEN <<>> ELSE <<i>>) \o DataScan(i + 1)

\* the lines writer.writerow produces for the source rows idx
LinesOf(idx) == [k \in 1..Len(idx) |-> RowValues(idx[k])]

\* open(csv_path, 'w'): the file exists and is empty
Truncated == [exists |-> TRUE, lines |-> <<>>, quotes |-> <<>>]
NoFile == [exists |-> FALSE, lines |-> <<>>, quotes |-> <<>>]

\* OpenForWrite in append mode: open(csv_path, 'a')
OpenForWrite_Append(f) == [exists |-> TRUE, lines |-> f.lines, quotes |-> f.quotes]

\* what open(csv_path, 'w') leaves of the file f that was there
OpenForWrite(f) == Truncated

\* Quoting with the pipeline script's writer built like the other one
Quoting_Default(script) == "minimal"

\* the quoting of the script's csv.writer: csv.QUOTE_ALL in the pipeline
\* script, the default csv.QUOTE_MINIMAL in format_gilts_csv.py
Quoting(script) == IF script = "pipeline" THEN "all" ELSE "minimal"

\* QUOTE_MINIMAL quotes a field that holds the delimiter, the quote
\* character or a character of the line terminator
NeedsQuote(field) ==
    \E k \in 1..Len(field) : field[k] \in {",", "\"", "\r", "\n"}

\* the writer puts the field between quote characters
Quoted(policy, field) == policy = "all" \/ NeedsQuote(field)

\* for every field of lines, whether the running script's writer quotes it
QuotesOf(lines) ==
    [k \in 1..Len(lines) |->
        [j \in 1..Len(lines[k]) |-> Quoted(Quoting(impl), lines[k][j])]]

\* what writing lines to the open file f leaves
WriteLines(f, lines) ==
    [exists |-> TRUE, lines |-> f.lines \o lines,
     quotes |-> f.quotes \o QuotesOf(lines)]

(***************************************************************************)
(* Destination path.                                                       *)
(***************************************************************************)
\* s.split(sep)[-1]
RECURSIVE LastSegment(_, _)
LastSegment(s, sep) ==
    IF ~InList(sep, s) THEN s
    ELSE LastSegment(Tail(s), sep)

\* s.split(sep)[0]
RECURSIVE FirstSegment(_, _)
FirstSegment(s, sep) ==
    IF s = <<>> \/ Head(s) = sep THEN <<>>
    ELSE <<Head(s)>> \o FirstSegment(Tail(s), sep)

\* the numerals that occur in file names: atom, value, number of digits
Numerals ==
    { [a |-> "03", v |-> 3, w |-> 2], [a |-> "3", v |-> 3, w |-> 1],
      [a |-> "31", v |-> 31, w |-> 2], [a |-> "11", v |-> 11, w |-> 2],
      [a |-> "02", v |-> 2, w |-> 2], [a |-> "2025", v |-> 2025, w |-> 4],
      [a |-> "25", v |-> 25, w |-> 2] }

IsNumeral(a) == \E r \in Numerals : r.a = a
NumeralOf(a) == CHOOSE r \in Numerals : r.a = a

DaysIn(m, y) ==
    IF m = 2 THEN (IF y % 4 = 0 /\ (y % 100 # 0 \/ y % 400 = 0) THEN 29 ELSE 28)
    ELSE IF m \in {4, 6, 9, 11} THEN 30 ELSE 31

\* datetime.strptime(date_str, '%d-%m-%Y') succeeds
DateParses(s) ==
    /\ Len(s) = 5 /\ s[2] = "-" /\ s[4] = "-"
    /\ IsNumeral(s[1]) /\ IsNumeral(s[3]) /\ IsNumeral(s[5])
    /\ LET d == NumeralOf(s[1])
           m == NumeralOf(s[3])
           y == NumeralOf(s[5]) IN
       /\ d.w <= 2 /\ m.w <= 2 /\ y.w = 4
       /\ m.v \in 1..12 /\ d.v \in 1..DaysIn(m.v, y.v)

\* the date strptime returns, as <<year, month, day>>
ParsedDate(s) == <<NumeralOf(s[5]).v, NumeralOf(s[3]).v, NumeralOf(s[1]).v>>

Pad2(k) == IF k < 10 THEN "0" \o ToString(k) ELSE ToString(k)

\* the date formatted day first, as the file name has it
FormatDate_DayFirst(d) == Pad2(d[3]) \o Pad2(d[2]) \o ToString(d[1])

\* date.strftime('%Y%m%d')
FormatDate(d) == ToString(d[1]) \o Pad2(d[2]) \o Pad2(d[3])

\* filename.split('_')[-1].split('.')[0]
DateStr(name) == FirstSegment(LastSegment(name, "_"), ".")

\* formatted_date: from the file name, or from the clock when strptime raises
FormattedDate(name, clock) ==
    IF DateParses(DateStr(name)) THEN FormatDate(ParsedDate(DateStr(name)))
    ELSE FormatDate(clock)

NoArg == ""
DefaultDir == "csv_exports"

\* output_dir after the default is applied
OutputDir(arg) == IF arg = NoArg THEN DefaultDir ELSE arg

\* os.path.join(output_dir, f"gilts_in_issue_{formatted_date}.csv")
CsvPath(dir, name, clock) ==
    <<dir, "/", "gilts", "_", "in", "_", "issue", "_",
      FormattedDate(name, clock), ".", "csv">>

(***************************************************************************)
(* The documents and file names the model is run on.                       *)
(***************************************************************************)
Empty == Text(<<>>)

\* a row of NCols cells: the two given ones, then empty cells
MkRow(c0, c1) == <<c0, c1>> \o [j \in 1..(NCols - 2) |-> Empty]

\* an ordinary gilt line: a padded name and a number that tells the rows apart
Filler(i) == MkRow(Text(<<WS, "UK", WS, "Treasury", WS>>), Number(i + 1))

FirstCells ==
    { Text(<<>>), Text(<<WS>>), Text(<<"Short">>), Text(<<WS, "Medium", WS>>),
      Text(<<"Ultra-Short">>), Text(<<"Long">>),
      Text(<<"Index-linked", WS, "Gilts">>), Text(<<"Notes">>) }

SecondCells == { Text(<<>>), Text(<<WS>>), Number(0), Text(<<"GB00">>) }

ExactHeader == MkRow(Text(<<WS>> \o ISIN_CODE \o <<WS>>), Text(REDEMPTION_DATE))
SwappedHeader == MkRow(Text(REDEMPTION_DATE), Text(ISIN_CODE))
SubstringRow == MkRow(Text(ISIN_CODE \o <<WS, "(GB)">>), Text(REDEMPTION_DATE))
OneTokenRow == MkRow(Text(ISIN_CODE), Text(<<"GB00">>))

HeaderKinds == {ExactHeader, SubstringRow}

SpecialRows ==
    {MkRow(c0, c1) : c0 \in FirstCells, c1 \in SecondCells}
        \cup {SwappedHeader, OneTokenRow}

\* p + 1 + tail rows of gilt lines with row hk at index p and row sk at index q
SheetOf(p, tail, hk, q, sk) ==
    [i \in 1..(p + 1 + tail) |->
        IF i - 1 = q THEN sk ELSE IF i - 1 = p THEN hk ELSE Filler(i - 1)]

Sheets ==
    {SheetOf(p, tail, hk, p + d, sk) :
        p \in 0..MaxHeaderRow, tail \in 0..MaxTail, hk \in HeaderKinds,
        d \in {-1, 1, 2}, sk \in SpecialRows}

\* the 12-row sheet of the scenario: header at 8, blank row 9, "Short" at 10
ScenarioSheet ==
    [i \in 1..12 |->
        IF i - 1 = 8 THEN ExactHeader
        ELSE IF i - 1 = 9 THEN MkRow(Empty, Empty)
        ELSE IF i - 1 = 10 THEN MkRow(Text(<<"Short">>), Empty)
        ELSE Filler(i - 1)]

\* a sheet with two sections: header at 8, a title right below it, then
\* "Index-linked Gilts" at 11, a group label at 12 and a note at 13
SectionsSheet ==
    [i \in 1..14 |->
        IF i - 1 = 8 THEN ExactHeader
        ELSE IF i - 1 = 9 THEN MkRow(Text(<<"Conventional", WS, "Gilts">>), Empty)
        ELSE IF i - 1 = 11 THEN MkRow(Text(<<"Index-linked", WS, "Gilts">>), Empty)
        ELSE IF i - 1 = 12 THEN MkRow(Text(<<"Long">>), Empty)
        ELSE IF i - 1 = 13 THEN MkRow(Text(<<"Notes">>), Empty)
        ELSE Filler(i - 1)]

DatedName ==
    <<"gilts", "_", "in", "_", "issue", "_", "03", "-", "11", "-", "2025", ".", "xls">>
UndatedName == <<"latest", ".", "xls">>
\* a one-digit day, which %d accepts
ShortDayName ==
    <<"gilts", "_", "in", "_", "issue", "_", "3", "-", "11", "-", "2025", ".", "xls">>
\* 31 February, which strptime rejects
BadDayName ==
    <<"gilts", "_", "in", "_", "issue", "_", "31", "-", "02", "-", "2025", ".", "xlsx">>
\* a two-digit year, which %Y rejects
ShortYearName ==
    <<"gilts", "_", "in", "_", "issue", "_", "03", "-", "11", "-", "25", ".", "xls">>
FileNames == {DatedName, UndatedName, ShortDayName, BadDayName, ShortYearName}

Day1 == <<2025, 11, 3>>
Day2 == <<2025, 11, 4>>

\* a file named as the outputs are named, kept in the default output
\* directory: an earlier output handed in as the input
CsvName == <<"gilts", "_", "in", "_", "issue", "_", "20251103", ".", "csv">>

\* the directory of the input file
InputDir == IF fileName = CsvName THEN DefaultDir ELSE "downloads"

\* excel_file
InputPath == <<InputDir, "/">> \o fileName

\* a sheet whose header is found and that has no row 5
ShortSheet == <<Filler(0), ExactHeader, Filler(2)>>

\* the CSV an earlier conversion of another workbook left
OldCsv ==
    [exists |-> TRUE,
     lines |-> << <<"Old", "1.0">>, <<"ISIN Code", "Redemption Date">> >>,
     quotes |-> << <<FALSE, FALSE>>, <<FALSE, FALSE>> >>]

\* a workbook, as a file
WorkbookFile ==
    [exists |-> TRUE, lines |-> << <<"workbook">> >>, quotes |-> << <<FALSE>> >>]

GivenDir == "out"
Dirs == {DefaultDir, GivenDir}

CsvPaths == {CsvPath(d, n, c) : d \in Dirs, n \in FileNames, c \in {Day1, Day2}}

\* the scenario sheet with a comma in one name, which minimal quoting quotes
CommaSheet ==
    [i \in 1..12 |->
        IF i - 1 = 11 THEN MkRow(Text(<<"Treasury", ",", WS, "4%">>), Text(<<"GB00">>))
        ELSE ScenarioSheet[i]]

ResultNone == <<"None">>
\* the call ended with an exception that nothing caught
ResultRaised == <<"raised">>
NoPrev ==
    [result |-> ResultNone, path |-> <<>>, file |-> NoFile, opened |-> FALSE,
     impl |-> "format"]

(***************************************************************************)
(* format_gilts_csv, step by step.                                         *)
(***************************************************************************)
\* download_path before handle_download has set it
NoPath == <<>>

\* what download_gilts_data meets when everything works
Smooth ==
    [launch |-> "ok", setup |-> "ok", goto |-> "ok", button |-> "first",
     click |-> "ok", rename |-> "ok", type |-> <<"Composite", "Document", "File">>,
     old |-> FALSE]

\* no download is part of the run: format_gilts_csv is called directly
DownloadOff ==
    /\ dl_pc = "off"
    /\ net = Smooth
    /\ browser = "none"
    /\ clicked = FALSE
    /\ handler = "none"
    /\ download_path = NoPath
    /\ download_wait_time = 0
    /\ seen = NoPath
    /\ excel_file = ResultNone
    /\ saved = "absent"

\* a local variable that no assignment has reached
Unbound == <<"unbound">>

\* what the site answers when everything works
AllOk == [page |-> "ok", post |-> "ok", alt |-> "ok", write |-> "ok", old |-> FALSE]

\* a call of process_gilts_data.py that nothing disturbs
PlainRun ==
    [ext |-> <<".", "x", "l", "s", "x">>, date |-> "given", copy |-> "ok",
     read |-> "ok", columns |-> TRUE, answer |-> "y"]

\* the scripts of src/archive are not part of the run
ArchiveOff ==
    /\ rq_pc = "off"
    /\ rq_net = AllOk
    /\ file_date = Unbound
    /\ output_file = ResultNone
    /\ rq_saved = "absent"
    /\ pg_pc = "off"
    /\ pg_in = PlainRun
    /\ organized_path = <<>>
    /\ df = "None"
    /\ pg_csv_path = <<>>
    /\ pg_files = <<>>

\* the state before the first call, the world being chosen already
Fresh ==
    /\ impl = "format"
    /\ dirs = {}
    /\ files = [p \in CsvPaths |->
                    IF p = CsvPath(OutputDir(output_dir), fileName, Day1)
                    THEN before ELSE NoFile]
    /\ pc = "idle"
    /\ runs = 0
    /\ csv_path = <<>>
    /\ header_row_idx = None
    /\ section_headers = <<>>
    /\ handleOpen = FALSE
    /\ emitted = <<>>
    /\ result = ResultNone
    /\ filesAtCall = files
    /\ opened = FALSE
    /\ created = FALSE
    /\ opens = 0
    /\ printed = ""
    /\ prev = NoPrev

\* every sheet of the family under the dated name with nothing going wrong
\* around it; the scenario sheet under every file name, state of the input
\* file, directory argument and state of the disk; and three sheets with a
\* file at the destination already, an old output or the input itself
Init ==
    /\ \/ /\ sheet \in Sheets \cup {<<>>, ScenarioSheet, SectionsSheet}
          /\ excel = "workbook" /\ fileName = DatedName
          /\ output_dir = NoArg /\ argv_dir = NoArg
          /\ blocked = {} /\ disk = "ok"
          /\ before = NoFile
       \/ /\ sheet = ScenarioSheet
          /\ excel \in {"workbook", "missing", "corrupt"} /\ fileName \in FileNames
          /\ \/ output_dir = NoArg /\ argv_dir \in {NoArg, GivenDir}
             \/ output_dir = GivenDir /\ argv_dir = NoArg
          /\ blocked \in {{}, Dirs}
          /\ disk \in {"ok", "readonly", "full"}
          /\ before = NoFile
       \/ /\ sheet \in {ScenarioSheet, ShortSheet, <<>>}
          /\ \/ /\ fileName = DatedName
                /\ excel \in {"workbook", "missing", "corrupt"}
                /\ before = OldCsv
             \/ /\ fileName = CsvName
                /\ excel \in {"workbook", "corrupt"}
                /\ before = IF excel = "workbook" THEN WorkbookFile ELSE OldCsv
          /\ output_dir = NoArg /\ argv_dir = NoArg
          /\ blocked = {}
          /\ disk \in {"ok", "full"}
    /\ scripts = "one"
    /\ now = Day1
    /\ DownloadOff
    /\ ArchiveOff
    /\ Fresh

\* the two scripts run in turn on the same workbook
InitPair ==
    /\ sheet \in Sheets \cup {<<>>, ScenarioSheet, CommaSheet}
    /\ excel = "workbook" /\ fileName = DatedName
    /\ output_dir = NoArg /\ argv_dir = NoArg
    /\ blocked = {} /\ disk = "ok"
    /\ before = NoFile
    /\ scripts = "both"
    /\ now = Day1
    /\ DownloadOff
    /\ ArchiveOff
    /\ Fresh

\* the script of call number k + 1
ScriptFor(k) ==
    IF scripts = "pipeline" \/ (scripts = "both" /\ k % 2 = 1) THEN "pipeline"
    ELSE "format"

\* the call returns v
Return(v) ==
    /\ result' = v
    /\ pc' = "done"

\* ExceptResult with the exception raised again
ExceptResult_Reraise == ResultRaised

\* except Exception as e: ... return None
ExceptResult == ResultNone

\* HandleAfterException with a close() that only the normal path reaches
HandleAfterException_Leak == TRUE

\* the handle after an exception has left the with block: closed
HandleAfterException == FALSE

\* MakeDirs that runs only once the input has been found
MakeDirs_AfterValidation(ds, d) == IF excel = "missing" THEN ds ELSE ds \cup {d}

\* os.makedirs(output_dir, exist_ok=True)
MakeDirs(ds, d) == ds \cup {d}

\* the file at excel_file is what it was before the first call
InputIntact == InputPath \in DOMAIN files => files[InputPath] = before

\* time passes between two calls
Tick ==
    /\ pc = "idle"
    /\ runs >= 1
    /\ now = Day1
    /\ now' = Day2
    /\ UNCHANGED <<world, download, archive, impl, dirs, files, pc, runs, csv_path, header_row_idx,
                   section_headers, handleOpen, emitted, result, filesAtCall,
                   opened, created, opens, printed, prev>>

\* entry, os.makedirs and the os.path.exists test; an error of os.makedirs
\* is raised outside the try block
Call ==
    /\ pc = "idle"
    /\ runs < MaxRuns
    /\ dl_pc = "off" \/ (dl_pc = "format" /\ runs = 0)
    /\ impl' = ScriptFor(runs)
    /\ csv_path' = <<>>
    /\ header_row_idx' = None
    /\ section_headers' = <<>>
    /\ emitted' = <<>>
    /\ filesAtCall' = files
    /\ opened' = FALSE
    /\ created' = FALSE
    /\ opens' = 0
    /\ IF OutputDir(output_dir) \in blocked
       THEN Return(ResultRaised) /\ UNCHANGED dirs
       ELSE /\ dirs' = MakeDirs(dirs, OutputDir(output_dir))
            /\ IF excel # "missing" THEN pc' = "convert" /\ result' = ResultNone
               ELSE Return(ResultNone)
    /\ UNCHANGED <<world, download, archive, now, files, runs, handleOpen, printed, prev>>

\* csv_path, then xlrd.open_workbook and sheet_by_index(0)
OpenWorkbook ==
    /\ pc = "convert"
    /\ csv_path' = CsvPath(OutputDir(output_dir), fileName, now)
    /\ IF excel = "workbook" /\ InputIntact
       THEN opened' = TRUE /\ pc' = "scan" /\ UNCHANGED result
       ELSE opened' = FALSE /\ Return(ExceptResult)
    /\ UNCHANGED <<world, download, archive, impl, dirs, now, files, runs, header_row_idx,
                   section_headers, handleOpen, emitted, filesAtCall, created,
                   opens, printed, prev>>

\* the header loop and the return on header_row_idx is None
FindHeaderRow ==
    /\ pc = "scan"
    /\ header_row_idx' = FindHeader(0)
    /\ IF header_row_idx' = None THEN Return(ResultNone)
       ELSE pc' = "sections" /\ UNCHANGED result
    /\ UNCHANGED <<world, download, archive, impl, dirs, now, files, runs, csv_path, section_headers,
                   handleOpen, emitted, filesAtCall, opened, created, opens,
                   printed, prev>>

\* the section-header loop
IdentifySections ==
    /\ pc = "sections"
    /\ section_headers' = SectionScan(header_row_idx + 1, header_row_idx)
    /\ pc' = "open"
    /\ UNCHANGED <<world, download, archive, impl, dirs, now, files, runs, csv_path, header_row_idx,
                   handleOpen, emitted, result, filesAtCall, opened, created,
                   opens, printed, prev>>

\* with open(csv_path, 'w', newline='') as csvfile; on a disk that refuses
\* the open, the error reaches the except clause and no file is made
OpenCsv ==
    /\ pc = "open"
    /\ IF disk = "readonly"
       THEN /\ Return(ExceptResult)
            /\ UNCHANGED <<files, handleOpen, created, opens>>
       ELSE /\ files' = [files EXCEPT ![csv_path] = OpenForWrite(@)]
            /\ handleOpen' = TRUE
            /\ created' = TRUE
            /\ opens' = opens + 1
            /\ pc' = "fixed"
            /\ UNCHANGED result
    /\ UNCHANGED <<world, download, archive, impl, dirs, now, runs, csv_path, header_row_idx,
                   section_headers, emitted, filesAtCall, opened, printed, prev>>

\* FixedRows with the totals row taken at index 6, "row 6" read as an index
FixedRows_OneBased(h) == <<0, TotalsRowIndex + 1, h>>

\* the source rows of the three fixed lines, in the order they are written
FixedRows(h) == <<0, TotalsRowIndex, h>>

\* the fixed lines that are written before a cell_value raises IndexError
RECURSIVE Writable(_)
Writable(idx) ==
    IF idx = <<>> \/ Head(idx) >= nrows THEN <<>>
    ELSE <<Head(idx)>> \o Writable(Tail(idx))

\* the three fixed writerow calls; an IndexError, or the error of a write
\* to a full disk, leaves the with block, which closes the file, and
\* reaches the except clause
WriteFixedRows ==
    /\ pc = "fixed"
    /\ LET idx == IF disk = "full" THEN <<>>
                  ELSE Writable(FixedRows(header_row_idx)) IN
        /\ files' = [files EXCEPT ![csv_path] = WriteLines(@, LinesOf(idx))]
        /\ emitted' = emitted \o idx
        /\ IF Len(idx) = Len(FixedRows(header_row_idx))
           THEN pc' = "data" /\ UNCHANGED <<result, handleOpen>>
           ELSE handleOpen' = HandleAfterException /\ Return(ExceptResult)
    /\ UNCHANGED <<world, download, archive, impl, dirs, now, runs, csv_path, header_row_idx,
                   section_headers, filesAtCall, opened, created, opens,
                   printed, prev>>

\* the data loop and the end of the with block
WriteDataRows ==
    /\ pc = "data"
    /\ LET idx == DataScan(header_row_idx + 1) IN
        /\ files' = [files EXCEPT ![csv_path] = WriteLines(@, LinesOf(idx))]
        /\ emitted' = emitted \o idx
    /\ handleOpen' = FALSE
    /\ pc' = "return"
    /\ UNCHANGED <<world, download, archive, impl, dirs, now, runs, csv_path, header_row_idx,
                   section_headers, result, filesAtCall, opened, created, opens,
                   printed, prev>>

\* return csv_path
ReturnPath ==
    /\ pc = "return"
    /\ Return(csv_path)
    /\ UNCHANGED <<world, download, archive, impl, dirs, now, files, runs, csv_path, header_row_idx,
                   section_headers, handleOpen, emitted, filesAtCall, opened,
                   created, opens, printed, prev>>

\* what __main__ of format_gilts_csv.py prints for the value v of csv_path;
\* an exception that escaped the call ends the script before the if
MainMessage(v) ==
    IF v = ResultRaised THEN ""
    ELSE IF v # ResultNone THEN "CSV file created at" ELSE "Failed to create CSV file."

\* the caller takes the result: __main__ of format_gilts_csv.py, which
\* passes no output directory, prints its message; the next call may start
Finish ==
    /\ pc = "done"
    /\ prev' = [result |-> result, path |-> csv_path,
                file |-> IF csv_path = <<>> THEN NoFile ELSE files[csv_path],
                opened |-> opened, impl |-> impl]
    /\ printed' = IF impl = "format" /\ output_dir = NoArg THEN MainMessage(result)
                  ELSE ""
    /\ runs' = runs + 1
    /\ pc' = "idle"
    /\ UNCHANGED <<world, download, archive, impl, dirs, now, files, csv_path, header_row_idx,
                   section_headers, handleOpen, emitted, result, filesAtCall,
                   opened, created, opens>>

Next ==
    \/ Tick
    \/ Call
    \/ OpenWorkbook
    \/ FindHeaderRow
    \/ IdentifySections
    \/ OpenCsv
    \/ WriteFixedRows
    \/ WriteDataRows
    \/ ReturnPath
    \/ Finish

Spec == Init /\ [][Next]_vars

\* the steps of the two scripts; the clock plays no part, the name has a date
NextPair ==
    \/ Call
    \/ OpenWorkbook
    \/ FindHeaderRow
    \/ IdentifySections
    \/ OpenCsv
    \/ WriteFixedRows
    \/ WriteDataRows
    \/ ReturnPath
    \/ Finish

SpecPair == InitPair /\ [][NextPair]_vars

(***************************************************************************)
(* download_gilts_data with Playwright, and main() of the pipeline script. *)
(***************************************************************************)
\* the conversion's own state, which the download leaves alone
conversion ==
    <<impl, now, files, pc, runs, csv_path, header_row_idx, section_headers,
      handleOpen, emitted, result, filesAtCall, opened, created, opens, printed,
      prev>>

\* datetime.now() - timedelta(days=1)
Yesterday(d) ==
    IF d[3] > 1 THEN <<d[1], d[2], d[3] - 1>>
    ELSE IF d[2] > 1 THEN <<d[1], d[2] - 1, DaysIn(d[2] - 1, d[1])>>
    ELSE <<d[1] - 1, 12, 31>>

\* yesterday.strftime('%d/%m/%Y')
SlashDate(d) == <<Pad2(d[3]), "/", Pad2(d[2]), "/", ToString(d[1])>>

\* s.replace(old, new), old being one character
Replace(str, old, new) == [k \in 1..Len(str) |-> IF str[k] = old THEN new ELSE str[k]]

\* os.path.join(output_dir, f"gilts_in_issue_{file_date}.xls")
OutputFile(date_str) ==
    <<"downloads", "/", "gilts", "_", "in", "_", "issue", "_">>
        \o Replace(date_str, "/", "-") \o <<".", "xls">>

\* os.path.basename
BaseName(path) == LastSegment(path, "/")

\* the path Playwright keeps the download at
TmpPath == <<"tmp", "/", "download">>

\* the longest the loop waits, in sleeps of one second
WaitLimit == 30

\* the loop test with the bound left out
LoopGoesOn_Unbounded(path, waited) == path = NoPath

\* while download_path is None and download_wait_time < 30
LoopGoesOn(path, waited) == path = NoPath /\ waited < WaitLimit

\* what the file command prints for the download
FileTypes ==
    { <<"Composite", "Document", "File">>, <<"HTML", "document">>,
      <<"html", "text">>, <<"data">>, <<>> }

\* the HTML test that lets every file through
IsHtml_Never(file_type) == FALSE

\* "HTML" in file_type or "html" in file_type
IsHtml(file_type) == InList("HTML", file_type) \/ InList("html", file_type)

\* what can happen to a download
Nets ==
    [launch : {"ok", "raise"}, setup : {"ok", "raise"}, goto : {"ok", "raise"},
     button : {"first", "other", "none"}, click : {"ok", "raise"},
     rename : {"ok", "raise"}, type : FileTypes, old : BOOLEAN]

\* main() of the pipeline is about to run; the file the site serves is a
\* workbook, or something xlrd cannot read
InitDownload ==
    /\ sheet \in {ScenarioSheet, ShortSheet, <<>>}
    /\ net \in Nets
    /\ excel = IF IsHtml(net.type) \/ net.type = <<"data">> THEN "corrupt" ELSE "workbook"
    /\ now = Day2
    /\ fileName = BaseName(OutputFile(SlashDate(Yesterday(now))))
    /\ output_dir = NoArg /\ argv_dir = NoArg
    /\ blocked = {} /\ disk = "ok"
    /\ before = NoFile
    /\ scripts = "pipeline"
    /\ dl_pc = "main"
    /\ browser = "none"
    /\ clicked = FALSE
    /\ handler = "none"
    /\ download_path = NoPath
    /\ download_wait_time = 0
    /\ seen = NoPath
    /\ excel_file = ResultNone
    /\ saved = IF net.old THEN "old" ELSE "absent"
    /\ ArchiveOff
    /\ Fresh

\* main() calls download_gilts_data: os.makedirs, async_playwright()
StartDownload ==
    /\ dl_pc = "main"
    /\ dirs' = MakeDirs(dirs, "downloads")
    /\ dl_pc' = "launch"
    /\ UNCHANGED <<world, conversion, archive, net, browser, clicked, handler, download_path,
                   download_wait_time, seen, excel_file, saved>>

\* async with async_playwright() is left: Playwright stops and takes a
\* browser that is still open with it
StopPlaywright(b) == IF b = "open" THEN "stopped" ELSE b

\* browser_type.launch; its error leaves the function, and main() catches it
Launch ==
    /\ dl_pc = "launch"
    /\ IF net.launch = "ok"
       THEN browser' = "open" /\ dl_pc' = "setup" /\ UNCHANGED excel_file
       ELSE browser' = StopPlaywright(browser) /\ dl_pc' = "check"
            /\ excel_file' = ResultRaised
    /\ UNCHANGED <<world, conversion, archive, dirs, net, clicked, handler, download_path,
                   download_wait_time, seen, saved>>

\* new_context, add_cookies, new_page: before the try block
Setup ==
    /\ dl_pc = "setup"
    /\ IF net.setup = "ok"
       THEN dl_pc' = "goto" /\ UNCHANGED <<browser, excel_file>>
       ELSE browser' = StopPlaywright(browser) /\ dl_pc' = "check"
            /\ excel_file' = ResultRaised
    /\ UNCHANGED <<world, conversion, archive, dirs, net, clicked, handler, download_path,
                   download_wait_time, seen, saved>>

\* page.goto, the cookie popup, page.evaluate, page.on('download', ...)
Navigate ==
    /\ dl_pc = "goto"
    /\ dl_pc' = IF net.goto = "ok" THEN "find" ELSE "finally"
    /\ UNCHANGED <<world, conversion, archive, dirs, net, browser, clicked, handler,
                   download_path, download_wait_time, seen, excel_file, saved>>

\* the Excel button is looked for under the first selector, then the others
FindButton ==
    /\ dl_pc = "find"
    /\ dl_pc' = IF net.button = "none" THEN "finally" ELSE "click"
    /\ UNCHANGED <<world, conversion, archive, dirs, net, browser, clicked, handler,
                   download_path, download_wait_time, seen, excel_file, saved>>

\* page.mouse.move and excel_button.click() are awaited
Click ==
    /\ dl_pc = "click"
    /\ IF net.click = "ok"
       THEN clicked' = TRUE /\ dl_pc' = "clicking"
       ELSE clicked' = FALSE /\ dl_pc' = "finally"
    /\ UNCHANGED <<world, conversion, archive, dirs, net, browser, handler, download_path,
                   download_wait_time, seen, excel_file, saved>>

\* the function is suspended in an await, so a handler can run
Awaiting == dl_pc \in {"clicking", "sleep", "closing"}

\* the download event: handle_download starts and awaits download.path()
DownloadStarts ==
    /\ Awaiting /\ clicked /\ browser = "open"
    /\ handler = "none"
    /\ handler' = "started"
    /\ UNCHANGED <<world, conversion, archive, dirs, dl_pc, net, browser, clicked,
                   download_path, download_wait_time, seen, excel_file, saved>>

\* download.path() returns and handle_download sets download_path
DownloadCompletes ==
    /\ Awaiting /\ browser = "open"
    /\ handler = "started"
    /\ handler' = "done"
    /\ download_path' = TmpPath
    /\ UNCHANGED <<world, conversion, archive, dirs, dl_pc, net, browser, clicked,
                   download_wait_time, seen, excel_file, saved>>

\* download.path() raises inside handle_download
DownloadFails ==
    /\ Awaiting
    /\ handler = "started"
    /\ handler' = "failed"
    /\ UNCHANGED <<world, conversion, archive, dirs, dl_pc, net, browser, clicked,
                   download_path, download_wait_time, seen, excel_file, saved>>

\* the click has returned: download_wait_time = 0 and the first loop test
ClickDone ==
    /\ dl_pc = "clicking"
    /\ download_wait_time' = 0
    /\ dl_pc' = IF LoopGoesOn(download_path, 0) THEN "sleep" ELSE "after"
    /\ UNCHANGED <<world, conversion, archive, dirs, net, browser, clicked, handler,
                   download_path, seen, excel_file, saved>>

\* asyncio.sleep(1) has returned: the counter goes up and the loop is tested
Sleep ==
    /\ dl_pc = "sleep"
    /\ download_wait_time' = download_wait_time + 1
    /\ dl_pc' = IF LoopGoesOn(download_path, download_wait_time') THEN "sleep"
                ELSE "after"
    /\ UNCHANGED <<world, conversion, archive, dirs, net, browser, clicked, handler,
                   download_path, seen, excel_file, saved>>

\* if download_path: remove the old file, rename, return output_file; an
\* error of os.rename is caught, the old file being removed already
MoveDownload ==
    /\ dl_pc = "after"
    /\ seen' = download_path
    /\ IF download_path # NoPath
       THEN IF net.rename = "ok"
            THEN /\ saved' = "new"
                 /\ excel_file' = OutputFile(SlashDate(Yesterday(now)))
            ELSE /\ saved' = "absent"
                 /\ excel_file' = ResultNone
       ELSE UNCHANGED <<saved, excel_file>>
    /\ dl_pc' = "finally"
    /\ UNCHANGED <<world, conversion, archive, dirs, net, browser, clicked, handler,
                   download_path, download_wait_time>>

\* the finally clause is entered: browser.close() is awaited
Finally ==
    /\ dl_pc = "finally"
    /\ dl_pc' = "closing"
    /\ UNCHANGED <<world, conversion, archive, dirs, net, browser, clicked, handler,
                   download_path, download_wait_time, seen, excel_file, saved>>

\* the browser after the finally clause with the close left out
AfterFinally_NoClose == "open"

\* the browser after await browser.close()
AfterFinally == "closed"

\* browser.close() has returned; the async with block is left and the
\* function returns
CloseBrowser ==
    /\ dl_pc = "closing"
    /\ browser' = StopPlaywright(AfterFinally)
    /\ dl_pc' = "check"
    /\ UNCHANGED <<world, conversion, archive, dirs, net, clicked, handler, download_path,
                   download_wait_time, seen, excel_file, saved>>

\* main(): if excel_file and os.path.exists(excel_file), the file command,
\* the return on HTML; else the failure message, or the except clause
CheckDownload ==
    /\ dl_pc = "check"
    /\ dl_pc' = IF /\ excel_file \notin {ResultNone, ResultRaised}
                   /\ saved # "absent"
                   /\ ~IsHtml(net.type)
                THEN "format" ELSE "end"
    /\ UNCHANGED <<world, conversion, archive, dirs, net, browser, clicked, handler,
                   download_path, download_wait_time, seen, excel_file, saved>>

\* main() prints how format_gilts_csv ended
MainEnd ==
    /\ dl_pc = "format"
    /\ pc = "idle" /\ runs = 1
    /\ dl_pc' = "end"
    /\ UNCHANGED <<world, conversion, archive, dirs, net, browser, clicked, handler,
                   download_path, download_wait_time, seen, excel_file, saved>>

NextDownload ==
    \/ StartDownload
    \/ Launch
    \/ Setup
    \/ Navigate
    \/ FindButton
    \/ Click
    \/ DownloadStarts
    \/ DownloadCompletes
    \/ DownloadFails
    \/ ClickDone
    \/ Sleep
    \/ MoveDownload
    \/ Finally
    \/ CloseBrowser
    \/ CheckDownload
    \/ Call
    \/ OpenWorkbook
    \/ FindHeaderRow
    \/ IdentifySections
    \/ OpenCsv
    \/ WriteFixedRows
    \/ WriteDataRows
    \/ ReturnPath
    \/ Finish
    \/ MainEnd

SpecDownload == InitDownload /\ [][NextDownload]_vars

(***************************************************************************)
(* src/archive: download_gilts_data with requests, and main() of           *)
(* process_gilts_data.py.                                                  *)
(***************************************************************************)
\* neither format_gilts_csv nor the Playwright download is part of the run
ConversionOff ==
    /\ sheet = <<>>
    /\ excel = "missing" /\ fileName = DatedName
    /\ output_dir = NoArg /\ argv_dir = NoArg
    /\ blocked = {} /\ disk = "ok"
    /\ before = NoFile
    /\ scripts = "one"
    /\ now = Day1
    /\ DownloadOff
    /\ Fresh

\* the exception e has left the function
Raised(e) == <<"raised", e>>

\* os.path.join(output_dir, f"gilts_in_issue_{file_date}.xlsx")
XlsxFile(fd) ==
    <<"downloads", "/", "gilts", "_", "in", "_", "issue", "_">> \o fd \o <<".", "xlsx">>

\* what the site and the disk can do to the three requests
RqNets ==
    [page : {"ok", "http", "conn"}, post : {"ok", "http", "conn"},
     alt : {"ok", "http", "conn"}, write : {"ok", "fail"}, old : BOOLEAN,
     date : {SlashDate(Day1), SlashDate(Yesterday(Day1))}]

InitRequests ==
    /\ ConversionOff
    /\ rq_pc = "main"
    /\ rq_net \in RqNets
    /\ file_date = Unbound
    /\ output_file = ResultNone
    /\ rq_saved = IF rq_net.old THEN "old" ELSE "absent"
    /\ pg_pc = "off"
    /\ pg_in = PlainRun
    /\ organized_path = <<>>
    /\ df = "None"
    /\ pg_csv_path = <<>>
    /\ pg_files = <<>>

\* what process_gilts_data.py leaves alone
processing == <<pg_pc, pg_in, organized_path, df, pg_csv_path, pg_files>>

\* what the requests download leaves alone
requesting == <<rq_pc, rq_net, file_date, output_file, rq_saved>>

\* os.makedirs, the headers, requests.Session()
RqStart ==
    /\ rq_pc = "main"
    /\ dirs' = MakeDirs(dirs, "downloads")
    /\ rq_pc' = "page"
    /\ UNCHANGED <<world, conversion, download, processing, rq_net, file_date,
                   output_file, rq_saved>>

\* session.get(base_url) and raise_for_status
GetPage ==
    /\ rq_pc = "page"
    /\ rq_pc' = IF rq_net.page = "ok" THEN "post" ELSE "except"
    /\ UNCHANGED <<world, conversion, dirs, download, processing, rq_net, file_date,
                   output_file, rq_saved>>

\* session.post(download_url) and raise_for_status
PostForm ==
    /\ rq_pc = "post"
    /\ rq_pc' = IF rq_net.post = "ok" THEN "save" ELSE "except"
    /\ UNCHANGED <<world, conversion, dirs, download, processing, rq_net, file_date,
                   output_file, rq_saved>>

\* the file after open(output_file, 'wb') and f.write
Written == IF rq_net.write = "ok" THEN "new" ELSE "partial"

\* what the function gives after the with block
Saved(path) == IF rq_net.write = "ok" THEN path ELSE Raised("OSError")

\* file_date, output_file, the write and the return of the primary path
SaveResponse ==
    /\ rq_pc = "save"
    /\ file_date' = Replace(rq_net.date, "/", "-")
    /\ rq_saved' = Written
    /\ output_file' = Saved(XlsxFile(file_date'))
    /\ rq_pc' = "done"
    /\ UNCHANGED <<world, conversion, dirs, download, processing, rq_net>>

\* except RequestException: strptime, session.get(direct_url) and
\* raise_for_status; a request error of this one is raised again
GetDirectUrl ==
    /\ rq_pc = "except"
    /\ IF rq_net.alt = "ok"
       THEN rq_pc' = "altsave" /\ UNCHANGED output_file
       ELSE rq_pc' = "done" /\ output_file' = Raised("RequestException")
    /\ UNCHANGED <<world, conversion, dirs, download, processing, rq_net, file_date,
                   rq_saved>>

\* output_file of the alternative path, the write and the return; reading
\* a file_date that was never assigned raises UnboundLocalError
SaveDirect ==
    /\ rq_pc = "altsave"
    /\ IF file_date = Unbound
       THEN /\ output_file' = Raised("UnboundLocalError")
            /\ UNCHANGED rq_saved
       ELSE /\ rq_saved' = Written
            /\ output_file' = Saved(XlsxFile(file_date))
    /\ rq_pc' = "done"
    /\ UNCHANGED <<world, conversion, dirs, download, processing, rq_net, file_date>>

NextRequests ==
    \/ RqStart
    \/ GetPage
    \/ PostForm
    \/ SaveResponse
    \/ GetDirectUrl
    \/ SaveDirect

SpecRequests == InitRequests /\ [][NextRequests]_vars

\* str.replace(old, new): every occurrence, from the left
RECURSIVE ReplaceAll(_, _, _)
ReplaceAll(str, old, new) ==
    IF Len(str) < Len(old) THEN str
    ELSE IF SubSeq(str, 1, Len(old)) = old
         THEN new \o ReplaceAll(SubSeq(str, Len(old) + 1, Len(str)), old, new)
         ELSE <<Head(str)>> \o ReplaceAll(Tail(str), old, new)

\* os.path.splitext(path)[1]: from the last dot on
RECURSIVE SplitExt(_)
SplitExt(path) ==
    IF path = <<>> THEN <<>>
    ELSE IF InList(".", Tail(path)) THEN SplitExt(Tail(path))
    ELSE IF Head(path) = "." THEN path
    ELSE SplitExt(Tail(path))

\* str.lower() of an answer
Lower(str) == [k \in 1..Len(str) |-> IF str[k] = "Y" THEN "y" ELSE str[k]]

XLS == <<".", "x", "l", "s">>
XLSX == <<".", "x", "l", "s", "x">>
CSV == <<".", "c", "s", "v">>

\* sys.argv[1]
SourcePath == <<"Downloads", "/", "D1A">> \o pg_in.ext

\* the date as strftime('%d-%m-%Y') gives it
DashDate(d) == <<Pad2(d[3]), "-", Pad2(d[2]), "-", ToString(d[1])>>

\* sys.argv[2]: a date, something else, or nothing
DateArg ==
    IF pg_in.date = "given" THEN SlashDate(Yesterday(Day1))
    ELSE IF pg_in.date = "invalid" THEN <<"yesterday">>
    ELSE <<>>

\* datetime.strptime(date_str, '%d/%m/%Y') succeeds
SlashDateParses(str) ==
    /\ Len(str) = 5 /\ str[2] = "/" /\ str[4] = "/"
    /\ DateParses(Replace(str, "/", "-"))

\* file_date of organize_files
OrganizedDate(date_str) ==
    IF date_str # <<>> /\ SlashDateParses(date_str)
    THEN DashDate(ParsedDate(date_str))
    ELSE DashDate(now)

\* dest_path of organize_files
DestPath(source_path, date_str) ==
    <<"downloads", "/", "gilts", "_", "in", "_", "issue", "_">>
        \o OrganizedDate(date_str) \o SplitExt(source_path)

\* the paths process_gilts_data.py can touch
PgPaths ==
    {<<"Downloads", "/", "D1A">> \o e : e \in {XLS, XLSX, CSV}}
        \cup {<<"downloads", "/", "gilts", "_", "in", "_", "issue", "_">> \o d \o e :
                 d \in {DashDate(Day1), DashDate(Yesterday(Day1))},
                 e \in {XLS, XLSX, CSV}}

PgInputs ==
    [ext : {XLS, XLSX}, date : {"given", "invalid", "none"}, copy : {"ok", "fail"},
     read : {"ok", "fail"}, columns : BOOLEAN, answer : {<<"y">>, <<"Y">>, <<"n">>, <<>>}]

InitProcess ==
    /\ ConversionOff
    /\ rq_pc = "off"
    /\ rq_net = AllOk
    /\ file_date = Unbound
    /\ output_file = ResultNone
    /\ rq_saved = "absent"
    /\ pg_pc = "main"
    /\ pg_in \in PgInputs
    /\ organized_path = <<>>
    /\ df = "None"
    /\ pg_csv_path = <<>>
    /\ pg_files = [q \in PgPaths |-> IF q = SourcePath THEN "spreadsheet" ELSE "absent"]

\* organize_files: os.makedirs, dest_path, shutil.copy2; the source path is
\* returned when the copy fails
OrganizeFiles ==
    /\ pg_pc = "main"
    /\ dirs' = MakeDirs(dirs, "downloads")
    /\ LET dest_path == DestPath(SourcePath, DateArg) IN
       IF pg_in.copy = "ok"
       THEN /\ pg_files' = [pg_files EXCEPT ![dest_path] = pg_files[SourcePath]]
            /\ organized_path' = dest_path
       ELSE /\ organized_path' = SourcePath
            /\ UNCHANGED pg_files
    /\ pg_pc' = "process"
    /\ UNCHANGED <<world, conversion, download, requesting, pg_in, df, pg_csv_path>>

\* process_gilts_file: pd.read_excel with the engine of the extension; the
\* frame is returned with or without the expected columns
ProcessGiltsFile ==
    /\ pg_pc = "process"
    /\ df' = IF pg_files[organized_path] = "spreadsheet" /\ pg_in.read = "ok"
             THEN "frame" ELSE "None"
    /\ pg_pc' = IF df' = "None" THEN "done" ELSE "ask"
    /\ UNCHANGED <<world, conversion, dirs, download, requesting, pg_in,
                   organized_path, pg_csv_path, pg_files>>

\* organized_path.replace('.xlsx', '.csv')
CsvPathFor(path) == ReplaceAll(path, XLSX, CSV)

\* the question, and df.to_csv(csv_path) on the answer y
SaveCsv ==
    /\ pg_pc = "ask"
    /\ IF Lower(pg_in.answer) = <<"y">>
       THEN /\ pg_csv_path' = CsvPathFor(organized_path)
            /\ pg_files' = [pg_files EXCEPT ![pg_csv_path'] = "csv"]
       ELSE UNCHANGED <<pg_csv_path, pg_files>>
    /\ pg_pc' = "done"
    /\ UNCHANGED <<world, conversion, dirs, download, requesting, pg_in,
                   organized_path, df>>

NextProcess ==
    \/ OrganizeFiles
    \/ ProcessGiltsFile
    \/ SaveCsv

SpecProcess == InitProcess /\ [][NextProcess]_vars

(***************************************************************************)
(* Vocabulary of the properties.                                           *)
(***************************************************************************)
\* the call has returned a path
Succeeded == pc = "done" /\ result \notin {ResultNone, ResultRaised}

\* the call has returned None
Failed == pc = "done" /\ result = ResultNone

\* the header loop of this call has run
Scanned == opened /\ pc # "scan"

\* the lines of the file at csv_path
OutLines == files[csv_path].lines

\* cell j of row i, converted to a string and trimmed
Trimmed(i, j) == Strip(Str(sheet[i + 1][j]))

\* row i with every cell trimmed
TrimmedRow(i) == [j \in 1..Len(sheet[i + 1]) |-> Trimmed(i, j)]

\* some cell of row i trims to exactly tok
HasToken(i, tok) == \E j \in 1..Len(sheet[i + 1]) : Trimmed(i, j) = tok

\* row i holds both header tokens, each as a whole cell
HasBothTokens(i) == HasToken(i, ISIN_CODE) /\ HasToken(i, REDEMPTION_DATE)

\* row i holds both header tokens, but one only as part of a longer cell
HasTokensAsSubstring(i) ==
    /\ ~HasBothTokens(i)
    /\ \E j \in 1..Len(sheet[i + 1]) : Contains(Trimmed(i, j), ISIN_CODE)
    /\ \E j \in 1..Len(sheet[i + 1]) : Contains(Trimmed(i, j), REDEMPTION_DATE)

\* the rows the header scan looks at
Window == 0..(Min(HeaderScanRows, nrows) - 1)

\* the first cell of row i trims to a group label
IsGroupLabelRow(i) == InList(Trimmed(i, 1), GroupLabels)

\* every cell of row i trims to the empty string
IsBlankRow(i) == \A j \in 1..Len(sheet[i + 1]) : Trimmed(i, j) = <<>>

\* C1: a document with no row among its first 15 that holds both header
\* tokens as whole trimmed cells makes the call return None, and the call
\* never opens the CSV for writing: the destination is as it was.
C1_NoHeaderNoFile ==
    (pc = "done" /\ \A i \in Window : ~HasBothTokens(i))
        => result = ResultNone /\ ~created /\ files = filesAtCall

C1_Witness ==
    /\ pc = "done" /\ opened /\ nrows > 0
    /\ \A i \in Window : ~HasBothTokens(i)
    /\ \E i \in Window : HasTokensAsSubstring(i)

\* C2: whenever the call fails, whatever the path, it has left no truncated
\* or partly written CSV at the destination: it did not open it for writing.
C2_FailureLeavesNoPartialFile == Failed => ~created

\* C3: the header index is the smallest index of the window whose row holds
\* both tokens as whole trimmed cells, and None when the window has no such
\* row; a row that holds them only as substrings is never chosen.
C3_FirstExactHeader ==
    Scanned =>
        /\ (\A i \in Window : ~HasBothTokens(i)) => header_row_idx = None
        /\ (\E i \in Window : HasBothTokens(i)) =>
              /\ header_row_idx \in Window
              /\ HasBothTokens(header_row_idx)
              /\ \A k \in 0..(header_row_idx - 1) : ~HasBothTokens(k)

C3_Witness ==
    /\ Scanned /\ header_row_idx > 0
    /\ HasTokensAsSubstring(header_row_idx - 1)

\* C4: the scan never goes past index 14: a document whose only rows with
\* both tokens lie at index 15 or more fails with no header and no file,
\* and one whose first such row is at index 14 has header index 14.
C4_ScanStopsAtRow15 ==
    Scanned =>
        /\ header_row_idx < HeaderScanRows
        /\ (\A i \in 0..(nrows - 1) : HasBothTokens(i) => i >= HeaderScanRows)
              => /\ header_row_idx = None
                 /\ pc = "done" => (result = ResultNone /\ ~created)
        /\ (/\ nrows >= HeaderScanRows
            /\ HasBothTokens(HeaderScanRows - 1)
            /\ \A i \in 0..(HeaderScanRows - 2) : ~HasBothTokens(i))
              => header_row_idx = HeaderScanRows - 1

C4_Witness ==
    /\ Scanned /\ Failed
    /\ \E i \in 0..(nrows - 1) : HasBothTokens(i) /\ i >= HeaderScanRows

\* the source rows of the lines after the three fixed lines
DataEmitted == SubSeq(emitted, Len(FixedRows(header_row_idx)) + 1, Len(emitted))

\* C5 as stated: after a successful conversion no line of the output comes
\* from a row whose first cell trims to a group label.
C5_NoGroupLabelRowInOutput ==
    Succeeded => \A i \in 0..(nrows - 1) : IsGroupLabelRow(i) => ~InList(i, emitted)

\* C5 amended: after a successful conversion no line after the three fixed
\* lines comes from a row whose first cell trims to a group label, whatever
\* its other cells hold; such a row is in the output only as row 0, row 5 or
\* the header row, written as a fixed line.
C5_NoGroupLabelDataLine ==
    Succeeded =>
        /\ \A k \in 1..Len(DataEmitted) : ~IsGroupLabelRow(DataEmitted[k])
        /\ \A k \in (Len(FixedRows(header_row_idx)) + 1)..Len(OutLines) :
              ~InList(OutLines[k][1], GroupLabels)
        /\ \A i \in 0..(nrows - 1) :
              (IsGroupLabelRow(i) /\ InList(i, emitted))
                  => i \in {0, TotalsRowIndex, header_row_idx}

C5_Witness ==
    /\ Succeeded
    /\ \E i \in (header_row_idx + 1)..(nrows - 1) :
          /\ i # TotalsRowIndex
          /\ IsGroupLabelRow(i)
          /\ Trimmed(i, 2) # <<>>

\* C6 as stated: after a successful conversion no line of the output comes
\* from a row whose cells all trim to the empty string.
C6_NoBlankRowInOutput ==
    Succeeded => \A i \in 0..(nrows - 1) : IsBlankRow(i) => ~InList(i, emitted)

\* C6 amended: after a successful conversion no line after the three fixed
\* lines comes from a row whose cells all trim to the empty string, and no
\* such line has all its fields empty; a blank row is in the output only as
\* row 0 or row 5, written as a fixed line.
C6_NoBlankDataLine ==
    Succeeded =>
        /\ \A k \in 1..Len(DataEmitted) : ~IsBlankRow(DataEmitted[k])
        /\ \A k \in (Len(FixedRows(header_row_idx)) + 1)..Len(OutLines) :
              \E j \in 1..Len(OutLines[k]) : OutLines[k][j] # <<>>
        /\ \A i \in 0..(nrows - 1) :
              (IsBlankRow(i) /\ InList(i, emitted)) => i \in {0, TotalsRowIndex}

C6_Witness ==
    /\ Succeeded
    /\ \E i \in (header_row_idx + 1)..(nrows - 1) :
          /\ i # TotalsRowIndex
          /\ IsBlankRow(i)
          /\ \E j \in 1..Len(sheet[i + 1]) : Str(sheet[i + 1][j]) # <<>>

\* C7: after a successful conversion line 1 of the output is row 0 of the
\* sheet and line 2 is row 5 of the sheet, each cell converted to a string
\* and trimmed, wherever the header row was found.
C7_TitleAndTotalsLines ==
    Succeeded =>
        /\ Len(OutLines) >= 2
        /\ OutLines[1] = TrimmedRow(0)
        /\ OutLines[2] = TrimmedRow(TotalsRowIndex)

C7_Witness ==
    /\ Succeeded
    /\ header_row_idx < TotalsRowIndex
    /\ \E j \in 1..Len(sheet[1]) : Str(sheet[1][j]) # Trimmed(0, j)

\* the tag section 4.2 of the specification gives row i below header h
Classify(i, h) ==
    LET label == Trimmed(i, 1) IN
    IF InList(label, GroupLabels) THEN "GroupLabel"
    ELSE IF label # <<>> /\ Trimmed(i, 2) = <<>> /\ i > h + 1 THEN "SectionHeader"
    ELSE IF Contains(label, INDEX_LINKED) /\ i > h + 1 THEN "SectionHeader"
    ELSE IF IsBlankRow(i) THEN "Empty"
    ELSE "Data"

\* the rows below header h that section 4.3 retains, in ascending order
Retained(h) ==
    SelectSeq([k \in 1..(nrows - h - 1) |-> h + k],
              LAMBDA i : Classify(i, h) \in {"SectionHeader", "Data"})

\* C8: a successful output is the three fixed lines (row 0, row 5, header
\* row) followed by the rows below the header that the classifier tags
\* SectionHeader or Data, each once and in ascending order: 3 plus that many
\* lines, each line the trimmed cells of its row.
C8_OutputShape ==
    Succeeded =>
        /\ emitted = <<0, TotalsRowIndex, header_row_idx>> \o Retained(header_row_idx)
        /\ Len(OutLines) = 3 + Len(Retained(header_row_idx))
        /\ \A k \in 1..Len(OutLines) : OutLines[k] = TrimmedRow(emitted[k])

C8_Witness ==
    /\ Succeeded
    /\ sheet = ScenarioSheet
    /\ header_row_idx = 8
    /\ Len(OutLines) = 4
    /\ emitted[4] = 11

\* C9: a second conversion of the same workbook, under the same file name
\* with a date in it, ends as the first did: same path, same result, same
\* file content, whatever the first run left and whatever the clock says.
C9_SecondRunSameOutput ==
    (pc = "done" /\ runs >= 1 /\ opened /\ prev.opened
        /\ DateParses(DateStr(fileName)))
        => /\ csv_path = prev.path
           /\ result = prev.result
           /\ files[csv_path] = prev.file

C9_Witness ==
    /\ Succeeded /\ runs = 1 /\ prev.opened
    /\ DateParses(DateStr(fileName))
    /\ now # Day1
    /\ prev.result = csv_path
    /\ Len(OutLines) > 3

\* the section-header test as the specification words it, cell 1 blank
\* meaning that it trims to the empty string
ClaimedSectionHeader(i, h) ==
    /\ ~IsGroupLabelRow(i)
    /\ i > h + 1
    /\ \/ (Trimmed(i, 1) # <<>> /\ Trimmed(i, 2) = <<>>)
       \/ Contains(Trimmed(i, 1), INDEX_LINKED)

\* C10: once the section-header pass has run, a row below the header is in
\* section_headers exactly when its first cell is no group label, it is not
\* the row right below the header, and either its first cell is non-blank
\* with cell 1 trimming to the empty string or its first cell contains
\* "Index-linked".
C10_SectionHeaderList ==
    (Scanned /\ header_row_idx # None /\ pc # "sections") =>
        \A i \in (header_row_idx + 1)..(nrows - 1) :
            InList(i, section_headers) <=> ClaimedSectionHeader(i, header_row_idx)

\* the section-header pass of this call has run
Listed == Scanned /\ header_row_idx # None /\ pc # "sections"

\* row i starts with a group label and its second cell trims to empty
IsBareGroupLabelRow(i) == IsGroupLabelRow(i) /\ Trimmed(i, 2) = <<>>

\* C11 as stated: a row below the header that starts with a group label
\* and has a blank second cell is never in section_headers and never in
\* the output.
C11_GroupLabelNeverWritten ==
    Listed =>
        \A i \in (header_row_idx + 1)..(nrows - 1) :
            IsBareGroupLabelRow(i) =>
                /\ ~InList(i, section_headers)
                /\ Succeeded => ~InList(i, emitted)

\* C11 amended: a row below the header that starts with a group label and
\* has a blank second cell is never in section_headers and is never
\* written by the data loop; it is in the output only when it is row 5,
\* written as the fixed totals line.
C11_GroupLabelBeforeSectionHeader ==
    Listed =>
        \A i \in (header_row_idx + 1)..(nrows - 1) :
            IsBareGroupLabelRow(i) =>
                /\ ~InList(i, section_headers)
                /\ Succeeded =>
                      /\ ~InList(i, DataEmitted)
                      /\ InList(i, emitted) => i = TotalsRowIndex

C11_Witness ==
    /\ Succeeded /\ Listed
    /\ \E i \in (header_row_idx + 2)..(nrows - 1) :
          i # TotalsRowIndex /\ IsBareGroupLabelRow(i)

\* row i has a non-blank first cell that is no group label, and a second
\* cell that trims to empty
IsTitleRow(i) ==
    Trimmed(i, 1) # <<>> /\ ~IsGroupLabelRow(i) /\ Trimmed(i, 2) = <<>>

Count(x, seq) == Cardinality({k \in 1..Len(seq) : seq[k] = x})

\* section_headers holds row indices in strictly ascending order
ListAscending ==
    \A k \in 1..(Len(section_headers) - 1) : section_headers[k] < section_headers[k + 1]

\* C13 as stated: section_headers is ascending, every row in it is
\* written to the output exactly once, and the rows written are the rows
\* below the header that are neither blank nor group-labelled, in the list
\* or not.
C13_ListedRowsWrittenOnce ==
    Listed =>
        /\ ListAscending
        /\ Succeeded =>
              /\ \A k \in 1..Len(section_headers) :
                    Count(section_headers[k], emitted) = 1
              /\ \A i \in (header_row_idx + 1)..(nrows - 1) :
                    InList(i, DataEmitted) <=> (~IsBlankRow(i) /\ ~IsGroupLabelRow(i))

\* C13 amended: section_headers is ascending, every row in it is written
\* exactly once by the data loop (a listed row 5 is also the fixed totals
\* line), each line is the trimmed row, and the rows the data loop writes
\* are the rows below the header that are neither blank nor group-labelled,
\* in the list or not.
C13_ListIsInformational ==
    Listed =>
        /\ ListAscending
        /\ Succeeded =>
              /\ \A k \in 1..Len(section_headers) :
                    /\ Count(section_headers[k], DataEmitted) = 1
                    /\ Count(section_headers[k], emitted) = 1
                          \/ section_headers[k] = TotalsRowIndex
              /\ \A k \in 1..Len(emitted) : OutLines[k] = TrimmedRow(emitted[k])
              /\ \A i \in (header_row_idx + 1)..(nrows - 1) :
                    InList(i, DataEmitted) <=> (~IsBlankRow(i) /\ ~IsGroupLabelRow(i))

C13_Witness ==
    /\ Succeeded /\ Listed
    /\ Len(section_headers) >= 2
    /\ \E i \in (header_row_idx + 1)..(nrows - 1) :
          InList(i, DataEmitted) /\ ~InList(i, section_headers)

\* the format script has run, and the pipeline script has run after it on
\* the same document
BothRan == pc = "done" /\ impl = "pipeline" /\ prev.impl = "format"

\* every field of the file f is quoted
AllQuoted(f) ==
    \A k \in 1..Len(f.quotes) : \A j \in 1..Len(f.quotes[k]) : f.quotes[k][j]

\* a field of the file f is quoted exactly when it holds a delimiter, a
\* quote or a line break
MinimallyQuoted(f) ==
    \A k \in 1..Len(f.quotes) : \A j \in 1..Len(f.quotes[k]) :
        f.quotes[k][j] <=>
            \E c \in 1..Len(f.lines[k][j]) : f.lines[k][j][c] \in {",", "\"", "\r", "\n"}

C15_MissingInputNoAction ==
    (pc = "done" /\ excel = "missing" /\ runs = 0) =>
        /\ result = ResultNone
        /\ ~opened
        /\ files = filesAtCall
        /\ dirs = {}

\* the call tried to open the workbook and the open raised
OpenRaised == pc = "done" /\ excel = "corrupt" /\ csv_path # <<>>

\* C16: when the spreadsheet fails to open or parse, the call returns None
\* without raising, the output file is never opened and no file changes.
C16_UnreadableSpreadsheet ==
    OpenRaised =>
        /\ result = ResultNone
        /\ ~opened
        /\ ~created /\ opens = 0 /\ ~handleOpen
        /\ files = filesAtCall

C16_Witness == OpenRaised /\ result = ResultNone /\ ~created

\* C17: when the output directory cannot be created or the output file
\* cannot be written, the call returns a value and raises nothing, and no
\* file is created or changed at the destination.
C17_WriteErrorIsAResult ==
    (pc = "done" /\ (OutputDir(output_dir) \in blocked \/ disk # "ok")) =>
        /\ result # ResultRaised
        /\ excel = "workbook" => result = ResultNone
        /\ files = filesAtCall

\* the date in the file names that carry one, day first
NameDate == <<"03", "11", "2025">>

\* the file names of the form gilts_in_issue_<DD-MM-YYYY>.<ext> whose date
\* strptime('%d-%m-%Y') accepts
HasDateInName == fileName \in {DatedName, ShortDayName}

\* the eight digits of the destination: year, month, day
ExpectedStamp ==
    IF HasDateInName THEN NameDate[3] \o NameDate[2] \o NameDate[1]
    ELSE IF now = Day1 THEN "20251103" ELSE "20251104"

\* C18: the destination is <output-dir>/gilts_in_issue_<YYYYMMDD>.csv with
\* the date of the file name, or the current date when the name has no
\* date that parses; on success the path returned is the path of the file
\* written, and no other file changes.
C18_DestinationPath ==
    (csv_path # <<>> /\ pc # "idle") =>
        /\ csv_path = <<IF output_dir = NoArg THEN "csv_exports" ELSE output_dir,
                        "/", "gilts", "_", "in", "_", "issue", "_",
                        ExpectedStamp, ".", "csv">>
        /\ Succeeded =>
              /\ result = csv_path
              /\ files[result].exists
              /\ \A q \in DOMAIN files : q # result => files[q] = filesAtCall[q]

C18_Witness ==
    /\ Succeeded
    /\ ~HasDateInName /\ now = Day2
    /\ output_dir = GivenDir
    /\ result[9] = "20251104"

\* C19: the output file is opened at most once per call, it is open only
\* while rows are written, and it is closed on every way out, the except
\* clause included.
C19_HandleClosedOnExit ==
    /\ opens <= 1
    /\ handleOpen => (opens = 1 /\ pc \in {"fixed", "data"})
    /\ pc \in {"idle", "return", "done"} => ~handleOpen

C19_Witness == Failed /\ created /\ opens = 1 /\ ~handleOpen

\* the command line of format_gilts_csv.py has run to its end
MainRan == pc = "idle" /\ runs >= 1 /\ prev.impl = "format" /\ output_dir = NoArg

\* C20: the command line writes the CSV into the output directory given
\* to it, prints the success message exactly when a CSV was created, and
\* otherwise prints the failure message with no file created.
C20_CommandLine ==
    MainRan =>
        /\ (created /\ argv_dir # NoArg) => csv_path[1] = argv_dir
        /\ printed = "CSV file created at" <=> created
        /\ printed # "CSV file created at" =>
              (printed = "Failed to create CSV file." /\ ~created)

\* C21: no call changes the input file, and the destination path is never
\* the path of the input file.
C21_InputReadOnly ==
    /\ (excel # "missing" /\ InputPath \in DOMAIN files) => files[InputPath] = before
    /\ csv_path # <<>> => csv_path # InputPath

\* C22: a call that returns None leaves a CSV that was at the destination
\* before the call as it was.
C22_FailureKeepsOldCsv ==
    (Failed /\ csv_path # <<>> /\ filesAtCall[csv_path].exists)
        => files[csv_path] = filesAtCall[csv_path]

\* C23: every line of a successful output has ncols fields, each the
\* string of the cell it comes from with the whitespace around it removed,
\* and no line written by the data loop has only empty fields.
C23_LinesAreTrimmedRows ==
    Succeeded =>
        /\ Len(OutLines) = Len(emitted)
        /\ \A k \in 1..Len(OutLines) :
              /\ Len(OutLines[k]) = Len(sheet[1])
              /\ \A j \in 1..Len(OutLines[k]) :
                    /\ OutLines[k][j] = Strip(Str(sheet[emitted[k] + 1][j]))
                    /\ OutLines[k][j] = <<>> \/ Head(OutLines[k][j]) # WS
                    /\ OutLines[k][j] = <<>>
                          \/ OutLines[k][j][Len(OutLines[k][j])] # WS
        /\ \A k \in (Len(FixedRows(header_row_idx)) + 1)..Len(OutLines) :
              \E j \in 1..Len(OutLines[k]) : OutLines[k][j] # <<>>

C23_Witness ==
    /\ Succeeded
    /\ Len(OutLines) > Len(FixedRows(header_row_idx))
    /\ \E k \in 1..Len(OutLines) : \E j \in 1..Len(OutLines[k]) :
          /\ OutLines[k][j] # Str(sheet[emitted[k] + 1][j])
          /\ OutLines[k][j] # <<>>
    /\ \E i \in (header_row_idx + 1)..(nrows - 1) : IsBlankRow(i)

\* the call returned without opening csv_path: the input is missing or
\* unreadable, or the sheet has no header row
ReturnedEarly ==
    /\ Failed
    /\ \/ excel # "workbook"
       \/ (opened /\ header_row_idx = None)

\* C24: the output directory is made before the input is looked at: after
\* every call that returns, the output directory exists, also when the
\* input is missing or unreadable or has no header row and no CSV is written.
C24_DirectoryMadeFirst ==
    (pc = "done" /\ result # ResultRaised) =>
        /\ OutputDir(output_dir) \in dirs
        /\ ReturnedEarly => (~created /\ files = filesAtCall)

C24_Witness ==
    /\ pc = "done" /\ runs = 0
    /\ excel = "missing"
    /\ result = ResultNone
    /\ dirs = {OutputDir(output_dir)}
    /\ ~created

\* download_gilts_data has returned, or has been left by an exception
Returned == dl_pc \in {"check", "format", "end"}

\* the try block of download_gilts_data was entered
TryEntered == net.launch = "ok" /\ net.setup = "ok"

\* C25: once the browser is launched, it is closed on every way out of
\* download_gilts_data before the function returns: by browser.close() in
\* the finally clause on every path through the try block (download done,
\* no Excel button, timeout, exception), and never left open on any other.
C25_BrowserClosedOnExit ==
    /\ Returned => browser # "open"
    /\ (Returned /\ TryEntered) => browser = "closed"
    /\ browser = "open" => dl_pc \in {"setup", "goto", "find", "click", "clicking",
                                      "sleep", "after", "finally", "closing"}

C25_Witness ==
    /\ Returned /\ browser = "closed"
    /\ clicked /\ seen = NoPath /\ download_wait_time = WaitLimit

\* the path download_gilts_data returns for the download of 3 November 2025
DownloadedPath ==
    <<"downloads", "/", "gilts", "_", "in", "_", "issue", "_",
      "03", "-", "11", "-", "2025", ".", "xls">>

\* C26: after the click the loop ends after 30 sleeps at most; the function
\* returns downloads/gilts_in_issue_<DD-MM-YYYY>.xls exactly when the
\* handler had set download_path before the loop ended and the file was
\* moved there, taking the place of a file of that name, and it returns
\* None otherwise, also when the handler completes after the timeout.
C26_WaitLoopAndResult ==
    /\ download_wait_time <= WaitLimit
    /\ (Returned /\ clicked) =>
          /\ excel_file = DownloadedPath <=> (seen # NoPath /\ net.rename = "ok")
          /\ excel_file = DownloadedPath => saved = "new"
          /\ excel_file # DownloadedPath => excel_file = ResultNone
          /\ seen = NoPath => download_wait_time = WaitLimit

C26_Witness ==
    /\ Returned /\ clicked
    /\ handler = "done" /\ download_path # NoPath
    /\ seen = NoPath /\ download_wait_time = WaitLimit
    /\ excel_file = ResultNone
    /\ saved = "old"

\* format_gilts_csv has been called
FormatCalled == pc # "idle" \/ runs > 0

\* the file command calls the download HTML
SaysHtml == net.type \in { <<"HTML", "document">>, <<"html", "text">> }

\* C27: main() calls format_gilts_csv only after download_gilts_data has
\* returned the path of a file that exists and that is not detected as
\* HTML; when the download fails or the file is HTML, format_gilts_csv is
\* not called and no CSV is created.
C27_FormatOnlyAfterGoodDownload ==
    /\ FormatCalled =>
          /\ dl_pc \in {"format", "end"}
          /\ excel_file = DownloadedPath /\ saved = "new"
          /\ ~SaysHtml
    /\ (dl_pc = "end" /\ (excel_file # DownloadedPath \/ SaysHtml)) =>
          /\ ~FormatCalled
          /\ ~created
          /\ \A q \in DOMAIN files : ~files[q].exists

C27_Witness ==
    /\ dl_pc = "end"
    /\ excel_file = DownloadedPath /\ saved = "new"
    /\ SaysHtml
    /\ ~FormatCalled

\* a request of the primary path failed with a request error
PrimaryFailed == rq_net.page # "ok" \/ rq_net.post # "ok"

\* C28: when the primary download fails with a request error and the
\* direct-URL request succeeds, the response is saved to
\* downloads/gilts_in_issue_<DD-MM-YYYY>.xlsx and that path is returned;
\* the function raises only when the direct-URL request fails too.
C28_AlternativeDownload ==
    (rq_pc = "done" /\ PrimaryFailed /\ rq_net.write = "ok") =>
        /\ rq_net.alt = "ok" =>
              /\ output_file = XlsxFile(Replace(rq_net.date, "/", "-"))
              /\ rq_saved = "new"
        /\ output_file[1] = "raised" => rq_net.alt # "ok"

\* C29: saving the data as CSV never writes over the organized
\* spreadsheet: for .xls and for .xlsx the CSV path differs from the path
\* of the spreadsheet that was copied and read, which stays a spreadsheet.
C29_CsvBesideSpreadsheet ==
    (pg_pc = "done" /\ pg_csv_path # <<>>) =>
        /\ pg_csv_path # organized_path
        /\ pg_files[organized_path] = "spreadsheet"

====
